---- MODULE Spec2Model ----
(***************************************************************************)
(* A model of the job engine (PlaygroundService) and of the FIFO job       *)
(* dispatcher (QueueService) of the crawl job server.                      *)
(*                                                                         *)
(* An action is one synchronous block of JavaScript: the code between two  *)
(* awaits runs without interleaving, so each action runs from one          *)
(* suspension point of an async function to the next.                      *)
(***************************************************************************)
EXTENDS Integers, Sequences, FiniteSets, TLC

(***************************************************************************)
(* Bounds of the model.                                                    *)
(***************************************************************************)
\* createJob calls made on one PlaygroundService
MaxJobs == 1
\* startJob and failJob calls made on it from outside createJob
MaxCalls == 2
\* jobs passed to enqueue on one QueueService
MaxQueued == 3
\* createJob calls made on a PlaygroundService whose plugins use their storage
MaxStorageJobs == 2
\* jobs passed to enqueue on a QueueService whose crawler reports its pages
MaxCrawlJobs == 1
\* pageComplete events, and periodic progress events, of one crawl job
MaxPages == 2
MaxTicks == 1
\* the largest config.webhook.retries of a sendWebhook call that is followed
MaxRetriesGiven == 3
\* writes to the job made by its run while a sendWebhook call is followed
MaxWrites == 1
\* jobs created on the service whose jobs run side by side
MaxSiblings == 2
\* recordFailure calls counted by a CircuitBreaker, and its timers not yet fired
MaxFailureCount == 6
MaxTimers == 3
\* middlewares passed to createMiddlewareChain
MaxMiddlewares == 3
\* calls made on one MemoryStorage
MaxStorageCalls == 4

\* sendWebhook's default number of attempts (retries = 3)
DefaultRetries == 3
\* the PlaygroundService's default (config.retries ?? 3)
DefaultMaxRetries == 3
\* the CircuitBreaker's default failureThreshold
DefaultFailureThreshold == 5

(***************************************************************************)
(* Values.                                                                 *)
(***************************************************************************)
\* the value of an absent string field (undefined)
NoVal == "undefined"
\* messages of the errors passed to failJob
ErrMsgs == {"boom", "bang"}
\* message of the error thrown by a listener that throws
ListenerError == "thrown by listener"
\* message of the error a hook of plugin p throws
HookError(p) == "thrown by " \o p.name
\* result.error when absent
NoError == [message |-> NoVal, plugin |-> NoVal]

\* options.plugins: the plugins the service was constructed with, in order.
\* initialize, before, after, summarize: whether the plugin implements the
\* optional hook; metric: what its execute returns (0 is a falsy value).
Plugins ==
  << [name |-> "a", enabled |-> TRUE,  before |-> TRUE,  after |-> TRUE,
      summarize |-> TRUE, metric |-> 1, initialize |-> TRUE],
     [name |-> "b", enabled |-> TRUE,  before |-> FALSE, after |-> FALSE,
      summarize |-> TRUE, metric |-> 0, initialize |-> FALSE],
     [name |-> "c", enabled |-> FALSE, before |-> FALSE, after |-> FALSE,
      summarize |-> TRUE, metric |-> 1, initialize |-> TRUE] >>

PluginNames == {Plugins[i].name : i \in DOMAIN Plugins}

WebhookEventTypes == {"started", "progress", "completed", "failed"}

\* config.webhook of a job: absent, or with the optional on and retries
\* (retries = 0: absent)
NoWebhook == [present |-> FALSE, hasOn |-> FALSE, on |-> {}, retries |-> 0]

WebhookConfigs ==
  { NoWebhook,
    [present |-> TRUE, hasOn |-> FALSE, on |-> {}, retries |-> 0],
    [present |-> TRUE, hasOn |-> TRUE, on |-> {"started"}, retries |-> 1],
    [present |-> TRUE, hasOn |-> TRUE, on |-> {"completed", "failed"},
     retries |-> 2] }

\* PlaygroundConfig: async and the optional plugins filter, without webhook
PlaygroundConfigs ==
  { [async |-> a, hasPlugins |-> f[1], plugins |-> f[2], webhook |-> NoWebhook] :
      a \in BOOLEAN, f \in { <<FALSE, {}>>, <<TRUE, {"b", "c"}>> } }

\* config.webhook of the playground jobs
PgWebhookConfigs ==
  { NoWebhook,
    [present |-> TRUE, hasOn |-> FALSE, on |-> {}, retries |-> 1],
    [present |-> TRUE, hasOn |-> TRUE, on |-> {"started", "completed"},
     retries |-> 0],
    [present |-> TRUE, hasOn |-> TRUE, on |-> {"progress", "failed"},
     retries |-> 2] }

\* PlaygroundConfig with or without config.webhook
WebhookJobConfigs ==
  { [c EXCEPT !.webhook = w] : c \in PlaygroundConfigs, w \in PgWebhookConfigs }

\* the events on which a listener registered by the caller throws (NoVal: no
\* listener throws)
Listeners == {NoVal, "jobStart", "pluginError", "jobComplete"}

\* A MemoryStorage (lines 121-139) is modelled by what it holds under one key:
\* the value set, which names the plugin that set it and the job in whose run
\* it did, or Absent.
Absent == [plugin |-> NoVal, job |-> 0]
\* plugin.storage of every plugin after initializePlugins (lines 176-178)
NoStorage == [n \in PluginNames |-> Absent]

\* the ids getJob and getProgress are called with: those of the jobs created
\* (1..Len(jobs)) and others
Ids == 1..(MaxJobs + 1)

\* no getJob or getProgress call made yet
NoReply == [op |-> NoVal, id |-> 0, ok |-> FALSE, value |-> NoVal, of |-> 0,
            error |-> NoVal]

\* a client that has called nothing
NoCalls == [passed |-> <<>>, reply |-> NoReply]

\* the answer to a POST not answered yet, and that of a fetch that rejected
\* (no response); any other answer is the status of the response
Pending == -1
Rejects == 0

\* sendWebhook not called yet.  Once called:
\*   emitter, ev  the service whose sendWebhook it is, and the event type
\*   limit        the bound of its loop (maxRetries; retries)
\*   failed       the attempts that have failed (retries; attempt)
\*   phase        "fetch" awaiting the answer to a POST, "backoff" awaiting
\*                the timer, "returned"
\*   posts        the POSTs made, each with its body and its answer
\*   waits        the delays of the timers set, in milliseconds
\*   clock        the milliseconds spent in timers since the call
\*   version      how many times the job has been written since the call
NoDelivery ==
  [ emitter |-> NoVal, ev |-> NoVal, limit |-> 0, failed |-> 0,
    phase |-> "idle", posts |-> <<>>, waits |-> <<>>, clock |-> 0,
    version |-> 0 ]

(***************************************************************************)
(* initializePlugins (lines 169-183), which the constructor calls without  *)
(* awaiting it (line 150).  For each plugin, in order:                     *)
(*   "waiting"  the loop has not reached it                                *)
(*   "called"   its initialize() has been called and is awaited            *)
(*   "done"     initialize() resolved, plugin.storage was set              *)
(*   "threw"    initialize() rejected, which the catch logged              *)
(*   "none"     it has no initialize; plugin.storage was set               *)
(***************************************************************************)
AllWaiting == [n \in PluginNames |-> "waiting"]

\* the loop from plugin index i up to its next await
RECURSIVE InitializeFrom(_, _)
InitializeFrom(st, i) ==
  IF i > Len(Plugins) THEN st
  ELSE IF Plugins[i].initialize
       THEN [st EXCEPT ![Plugins[i].name] = "called"]
       ELSE InitializeFrom([st EXCEPT ![Plugins[i].name] = "none"], i + 1)

\* the plugins when the constructor returns
Constructed == InitializeFrom(AllWaiting, 1)

(***************************************************************************)
(* A MemoryStorage key by key (this.storage, a Map, line 122).  JavaScript *)
(* values are written as their literals; NoVal under a key: the Map has    *)
(* no such key, and Map.get returns undefined.                             *)
(***************************************************************************)
Keys == {"k1", "k2"}

JsValues == {"0", "false", "''", "1", "'x'"}

\* the values that || takes for false
Falsy == {"0", "false", "''", "null", NoVal}

Null == "null"

\* calls: the number of calls made on the storage; reply: what the last get
\* returned, for which key, and which call it was
NewMemoryStorage ==
  [ map |-> [k \in Keys |-> NoVal], calls |-> 0,
    reply |-> [key |-> NoVal, value |-> NoVal, at |-> 0] ]

(***************************************************************************)
(* A CircuitBreaker (circuit-breaker.ts 15-78).  lastFailureTime is 0 or 1 *)
(* (1: the time of some recordFailure); timers is the number of reset      *)
(* timers set by recordFailure that have not fired.                        *)
(***************************************************************************)
NewBreaker(threshold) ==
  [ state |-> "CLOSED", failureCount |-> 0, lastFailureTime |-> 0,
    failureThreshold |-> threshold, timers |-> 0 ]

(***************************************************************************)
(* A request in the handler built by createMiddlewareChain (lines          *)
(* 213-236).  mws is what each middleware of the chain does when called,   *)
(* started the indices of the middlewares called so far (from 0), nexts    *)
(* the arguments of the calls of the outer next, awaiting the index of the *)
(* middleware whose promise executeMiddleware awaits.                      *)
(***************************************************************************)
NoRequest ==
  [ mws |-> <<>>, phase |-> "idle", awaiting |-> 0, started |-> <<>>,
    nexts |-> <<>> ]

\* the events of PlaygroundEventMap, with the plugin they are about
PluginEvents == {"pluginStart", "pluginComplete", "pluginError"}
\* an event is counted with its pluginName or, for jobError, its error's message
EventKeys ==
  ({"jobStart", "jobComplete"} \X {NoVal})
    \cup ({"jobError"} \X (ErrMsgs \cup {ListenerError}))
    \cup (PluginEvents \X PluginNames)

VARIABLES
  jobs,        \* this.jobs: the jobs created so far, by id (1..Len(jobs))
  runs,        \* the startJob invocations made so far, settled or suspended
  emitted,     \* per job, how many times each event has been emitted for it
  calls,       \* number of direct startJob and failJob calls made so far
  posts,       \* the sendWebhook calls of the PlaygroundService in flight
  listener,    \* the event on which a listener of the caller throws
  storage,     \* plugin.storage of each plugin, by plugin name
  client,      \* what the callers hold: the configs they passed to createJob
               \* and the outcome of their last getJob or getProgress call
  delivery,    \* one sendWebhook call followed from its first POST to its
               \* return, with the POSTs its receiver got (see NoDelivery)
  q,           \* the QueueService and the crawl jobs passed to it (see QInit)
  inits,       \* how far initializePlugins has got with each plugin
  mem,         \* one MemoryStorage, key by key, and what its last get returned
  breaker,     \* a CircuitBreaker and its pending reset timers
  chain        \* one request going through a createMiddlewareChain handler

pgvars ==
  <<jobs, runs, emitted, calls, posts, listener, storage, client, delivery,
    inits, mem>>

vars ==
  <<jobs, runs, emitted, calls, posts, listener, storage, client, delivery, q,
    inits, mem, breaker, chain>>

(***************************************************************************)
(* PlaygroundService.createJob: the job record it stores.                  *)
(* endTime is the number of times progress.endTime has been stamped        *)
(* (0: undefined).  createdAt and updatedAt are instants numbered in the   *)
(* order of the `new Date()` calls that wrote them: createJob writes the   *)
(* same instant to both (lines 206-207) and every later write of           *)
(* updatedAt is a later instant.                                           *)
(***************************************************************************)
NewJob(cfg) ==
  [ config           |-> cfg,
    status           |-> "queued",
    endTime          |-> 0,
    createdAt        |-> 1,
    updatedAt        |-> 1,
    error            |-> NoVal,
    currentPlugin    |-> NoVal,
    completedPlugins |-> <<>>,
    hasResult        |-> FALSE,
    metrics          |-> <<>>,
    rerror           |-> NoError,
    hasSummary       |-> FALSE,
    summary          |-> {} ]

(***************************************************************************)
(* startJob, lines 220-227: a fresh empty result, and progress reset to    *)
(* running with no completed plugin.  There is no test of the current      *)
(* status.                                                                 *)
(***************************************************************************)
BeginRun(job) ==
  [ job EXCEPT !.hasResult = TRUE,
               !.metrics = <<>>,
               !.rerror = NoError,
               !.hasSummary = FALSE,
               !.summary = {},
               !.status = "running",
               !.completedPlugins = <<>>,
               !.updatedAt = @ + 1 ]

\* the loop without its second `continue` test
Selected_IgnoresFilter(cfg, p) == p.enabled

\* the plugin loop's two `continue` tests
Selected(cfg, p) ==
  /\ p.enabled
  /\ ~ (cfg.hasPlugins /\ p.name \notin cfg.plugins)

\* the loop taking the last plugin it does not skip instead of the next one
NextSelected_Last(cfg, i) ==
  LET S == { k \in DOMAIN Plugins : k >= i /\ Selected(cfg, Plugins[k]) }
  IN  IF S = {} THEN 0 ELSE CHOOSE k \in S : \A m \in S : k >= m

\* index of the first plugin at or after i that the loop does not skip; 0 if none
NextSelected(cfg, i) ==
  LET S == { k \in DOMAIN Plugins : k >= i /\ Selected(cfg, Plugins[k]) }
  IN  IF S = {} THEN 0 ELSE CHOOSE k \in S : \A m \in S : k <= m

\* the first hook the loop awaits for a plugin
FirstHook(p) == IF p.before THEN "before" ELSE "execute"

\* the metrics list handed to plugin name n's summarize:
\* result.metrics.map(m => m[n]).filter(Boolean)
SummarizeInput(metrics, n) ==
  LET Keep(e) == e[1] = n /\ e[2] # 0
  IN  SelectSeq(metrics, Keep)

\* names of the plugins whose summarize is called
Summarizers == { Plugins[i].name : i \in { k \in DOMAIN Plugins :
                    Plugins[k].enabled /\ Plugins[k].summarize } }

NoSumIn == [n \in Summarizers |-> <<>>]

(***************************************************************************)
(* A startJob invocation (a run).  pc is its suspension point:             *)
(*   "hook"     awaiting plugin idx's hook (before, execute or after)      *)
(*   "summary"  awaiting Promise.all of the summarize calls                *)
(*   "returned" the promise resolved with the job                          *)
(* via is the caller: "create" (createJob returns startJob's promise) or   *)
(* "start" (a direct startJob call).  metrics is the local constant of     *)
(* line 256, sumIn the lists passed to the summarizers.  done lists the    *)
(* plugins whose hooks all succeeded in this run, failed is the last       *)
(* plugin error caught in it.  storage is context.storage, the             *)
(* MemoryStorage made for the run (line 237).                              *)
(***************************************************************************)
NewRun(j, via) ==
  [ job |-> j, via |-> via, pc |-> "hook", idx |-> 0, hook |-> NoVal,
    metrics |-> 0, sumIn |-> NoSumIn, done |-> <<>>, failed |-> NoError,
    storage |-> Absent ]

\* a run that has returned keeps nothing but its caller and its job
Returned(run) ==
  [ NewRun(run.job, run.via) EXCEPT !.pc = "returned" ]

\* a run whose promise rejected ("rejected"), likewise
Rejected(run) ==
  [ NewRun(run.job, run.via) EXCEPT !.pc = "rejected" ]

\* The loop moves on from plugin index i-1: either it enters the next selected
\* plugin (currentPlugin, pluginStart, first hook called) or it leaves the loop
\* and calls the summarizers.  Yields <<job, run, events>>.
Advance(job, run, i) ==
  LET k == NextSelected(job.config, i)
  IN  IF k # 0
      THEN << [job EXCEPT !.currentPlugin = Plugins[k].name],
              [run EXCEPT !.pc = "hook", !.idx = k,
                          !.hook = FirstHook(Plugins[k])],
              << <<"pluginStart", Plugins[k].name>> >> >>
      ELSE << job,
              [run EXCEPT !.pc = "summary", !.idx = 0, !.hook = NoVal,
                          !.metrics = 0,
                          !.sumIn = [n \in Summarizers |->
                                       SummarizeInput(job.metrics, n)]],
              << >> >>

\* startJob up to its first await (lines 216-252): <<job, run, events>>
RunStart(job, j, via) ==
  LET adv == Advance(BeginRun(job), NewRun(j, via), 1)
  IN  IF listener = "jobStart"
      THEN \* line 229 is outside the try: the listener's error leaves startJob
           << BeginRun(job), Rejected(NewRun(j, via)),
              << <<"jobStart", NoVal>> >> >>
      ELSE << adv[1], adv[2], << <<"jobStart", NoVal>> >> \o adv[3] >>

\* lines 263-275: the plugin's hooks all succeeded
PluginDone(job, run) ==
  LET n    == Plugins[run.idx].name
      job1 == [job EXCEPT
                 !.metrics = IF job.hasResult
                             THEN Append(@, <<n, run.metrics>>) ELSE @,
                 !.completedPlugins = Append(@, n)]
      adv  == Advance(job1, [run EXCEPT !.done = Append(@, n)], run.idx + 1)
  IN  << adv[1], adv[2], << <<"pluginComplete", n>> >> \o adv[3] >>

\* failJob returning early on a job that has already ended
FailedJob_Idempotent(job, msg) ==
  IF job.status \in {"completed", "failed"} THEN job
  ELSE [ job EXCEPT !.status = "failed",
                    !.endTime = @ + 1,
                    !.updatedAt = @ + 1,
                    !.error = msg,
                    !.hasResult = TRUE,
                    !.metrics = IF job.hasResult THEN @ ELSE <<>>,
                    !.rerror = [message |-> msg, plugin |-> NoVal] ]

\* failJob that keeps the result of a job that has one
FailedJob_KeepsResult(job, msg) ==
  [ job EXCEPT !.status = "failed",
               !.endTime = @ + 1,
               !.updatedAt = @ + 1,
               !.error = msg,
               !.hasResult = TRUE,
               !.metrics = IF job.hasResult THEN @ ELSE <<>>,
               !.rerror = IF job.hasResult THEN @
                          ELSE [message |-> msg, plugin |-> NoVal] ]

\* failJob, lines 356-374
FailedJob(job, msg) ==
  [ job EXCEPT !.status = "failed",
               !.endTime = @ + 1,
               !.updatedAt = @ + 1,
               !.error = msg,
               !.hasResult = TRUE,
               !.metrics = IF job.hasResult THEN @ ELSE <<>>,
               !.rerror = [message |-> msg, plugin |-> NoVal] ]

\* the outer catch of startJob, lines 334-340, for an error thrown by a
\* listener after the events evs: failJob(id, error), then the error is rethrown
RunFails(job, run, evs) ==
  << FailedJob(job, ListenerError), Rejected(run),
     evs \o << <<"jobError", ListenerError>> >> >>

\* the plugin catch without its emit of pluginError
PluginThrew_Silent(job, run, msg) ==
  LET n    == Plugins[run.idx].name
      err  == [message |-> msg, plugin |-> n]
      job1 == [job EXCEPT !.rerror = IF job.hasResult THEN err ELSE @]
  IN  Advance(job1, [run EXCEPT !.failed = err], run.idx + 1)

\* lines 276-292: a hook of the plugin threw an error with message msg
PluginThrew(job, run, msg) ==
  LET n    == Plugins[run.idx].name
      err  == [message |-> msg, plugin |-> n]
      job1 == [job EXCEPT !.rerror = IF job.hasResult THEN err ELSE @]
      adv  == Advance(job1, [run EXCEPT !.failed = err], run.idx + 1)
  IN  IF listener = "pluginError"
      THEN RunFails(job, run, << <<"pluginError", n>> >>)
      ELSE << adv[1], adv[2], << <<"pluginError", n>> >> \o adv[3] >>

\* lines 319-324: the completed progress
CompletedProgress(job) ==
  [ job EXCEPT !.status = "completed",
               !.endTime = @ + 1,
               !.updatedAt = @ + 1,
               !.currentPlugin = NoVal ]

\* lines 296-333: the summaries that did not throw (ok) are assigned, the job is
\* completed and returned
Finish(job, run, ok) ==
  LET job1 == IF job.hasResult
              THEN [job EXCEPT !.hasSummary = TRUE,
                               !.summary = { <<n, run.sumIn[n]>> : n \in ok }]
              ELSE job
  IN  IF listener = "jobComplete"
      THEN RunFails(CompletedProgress(job1), run,
                    << <<"jobComplete", NoVal>> >>)
      ELSE << CompletedProgress(job1), Returned(run),
              << <<"jobComplete", NoVal>> >> >>

\* emit: the counts after the events evs have been emitted
RECURSIVE Emit(_, _)
Emit(cnt, evs) ==
  IF evs = <<>> THEN cnt
  ELSE Emit([cnt EXCEPT ![Head(evs)] = @ + 1], Tail(evs))

NoneEmitted == [k \in EventKeys |-> 0]

(***************************************************************************)
(* The webhooks of the PlaygroundService (setupWebhookHandlers,            *)
(* sendWebhook).  A delivery is one sendWebhook call in flight: the event  *)
(* type ev of job `job`, about a plugin or an error message, the number    *)
(* of failed attempts so far (retries) and where the loop waits (phase:    *)
(* "fetch" for the answer to a POST, "backoff" for the timer).  n tells    *)
(* the calls for the same event of a job apart: the call is for the n-th   *)
(* emit of that event.                                                     *)
(***************************************************************************)
\* shouldSendWebhook, lines 430-437
PgShouldSendWebhook_Always(w, eventType) == w.present

PgShouldSendWebhook(w, eventType) ==
  IF ~ w.present THEN FALSE
  ELSE IF ~ w.hasOn THEN TRUE
  ELSE eventType \in w.on

\* the event type that the handler registered for an event sends (NoVal: no
\* handler is registered for it)
WebhookEventOf(name) ==
  CASE name = "jobStart"       -> "started"
    [] name = "jobComplete"    -> "completed"
    [] name = "jobError"       -> "failed"
    [] name = "pluginComplete" -> "progress"
    [] OTHER                   -> NoVal

\* maxRetries, line 386
MaxRetries(w) == IF w.retries = 0 THEN DefaultMaxRetries ELSE w.retries

\* the sendWebhook calls made by the handlers for the events evs of job j, each
\* up to its first await (the first POST is made); cnt counts the events
\* emitted for the job before evs
Deliveries(j, w, evs, cnt) ==
  { [ job |-> j, ev |-> WebhookEventOf(evs[i][1]), about |-> evs[i][2],
      n |-> cnt[evs[i]] + 1,
      retries |-> 0, phase |-> "fetch", maxRetries |-> MaxRetries(w) ] :
      i \in { k \in DOMAIN evs :
                /\ WebhookEventOf(evs[k][1]) # NoVal
                /\ PgShouldSendWebhook(w, WebhookEventOf(evs[k][1])) } }

\* lines 422-426: after the last attempt failed the failure is logged; the job
\* is not touched
DeliveryExhausted_FailsJob(job) == FailedJob(job, "boom")

DeliveryExhausted(job) == job

(***************************************************************************)
(* QueueService (queue-service.ts) over a CrawlerService.                  *)
(*   queue, isProcessing   the fields of the QueueService                  *)
(*   cjobs        the crawl jobs passed to enqueue, in call order: status  *)
(*                and config.webhook of each                               *)
(*   immediates   setImmediate callbacks not yet run                       *)
(*   tasks        the sendWebhook calls in flight                          *)
(*   started      the ids crawler.startJob was called with, in call order  *)
(*   dispatches   per job, the processNextJob calls made because it ended  *)
(*   pages, ticks per job, the pageComplete events and the periodic        *)
(*                progress events the crawler has emitted for it           *)
(***************************************************************************)
\* shouldSendWebhook, lines 14-21
ShouldSendWebhook(w, eventType) ==
  IF ~ w.present THEN FALSE
  ELSE IF ~ w.hasOn THEN TRUE
  ELSE eventType \in w.on

\* the retries parameter of sendWebhook: the argument, or its default when the
\* argument is undefined
Retries(passed) == IF passed = 0 THEN DefaultRetries ELSE passed

\* queue.push(job), line 201
QueuePush(queue, j) == Append(queue, j)

\* queue.pop() in place of queue.shift()
QueueShift_Pop(queue) ==
  << queue[Len(queue)], SubSeq(queue, 1, Len(queue) - 1) >>

\* queue.shift(), line 185: <<the element removed, the rest>>
QueueShift(queue) == << Head(queue), Tail(queue) >>

\* sendWebhook is called for event ev of job j, about its page `about` (0: not
\* about a page), with the retries argument passed; next: processNextJob is
\* awaited after it (handleJobComplete, handleJobError)
SendWebhookAbout(st, j, ev, about, passed, next) ==
  [ st EXCEPT !.tasks = @ \cup { [ job |-> j, ev |-> ev, about |-> about,
                                   attempt |-> 0, phase |-> "fetch",
                                   retries |-> Retries(passed),
                                   next |-> next ] } ]

SendWebhook(st, j, ev, passed, next) ==
  SendWebhookAbout(st, j, ev, 0, passed, next)

\* handlePageComplete (lines 112-138) for the pageComplete event of page n of
\* job j
HandlePageComplete(st, j, n) ==
  IF ShouldSendWebhook(st.cjobs[j].webhook, "progress")
  THEN SendWebhookAbout(st, j, "progress", n, 0, FALSE)
  ELSE st

\* crawler.startJob(j) up to its first await: the job is running and jobStart
\* has been emitted, which handleJobStart (lines 41-58) receives
CrawlerStartJob(st, j) ==
  LET st1 == [ st EXCEPT !.cjobs[j].status = "running",
                         !.started = Append(@, j) ]
  IN  IF ShouldSendWebhook(st.cjobs[j].webhook, "started")
      THEN SendWebhook(st1, j, "started", 0, FALSE)
      ELSE st1

\* processNextJob, lines 179-198, up to its await; `because` is the job whose
\* end caused the call (0: the call made by enqueue)
ProcessNextJob(st, because) ==
  LET st1 == IF because = 0 THEN st
             ELSE [ st EXCEPT !.dispatches[because] = @ + 1 ]
  IN  IF Len(st1.queue) = 0
      THEN [ st1 EXCEPT !.isProcessing = FALSE ]
      ELSE LET sh == QueueShift(st1.queue)
           IN  CrawlerStartJob([ st1 EXCEPT !.queue = sh[2] ], sh[1])

\* handleJobComplete (lines 60-86) and handleJobError (lines 88-110) up to
\* their first await, for the event ev ("completed", "failed") of job j
HandleJobEnd(st, j, ev) ==
  IF ShouldSendWebhook(st.cjobs[j].webhook, ev)
  THEN SendWebhook(st, j, ev, st.cjobs[j].webhook.retries, TRUE)
  ELSE ProcessNextJob(st, j)

\* the catch of processNextJob, lines 193-197: startJob(j) threw
CatchStartJob(st, j) == ProcessNextJob(st, j)

\* sendWebhook t has returned: its caller goes on
WebhookReturns(st, t) ==
  LET st1 == [ st EXCEPT !.tasks = @ \ {t} ]
  IN  IF t.next THEN ProcessNextJob(st1, t.job) ELSE st1

QInit ==
  q = [ queue |-> <<>>, isProcessing |-> FALSE, cjobs |-> <<>>,
        immediates |-> 0, tasks |-> {}, started |-> <<>>,
        dispatches |-> <<>>, pages |-> <<>>, ticks |-> <<>> ]

Init ==
  /\ jobs = <<>>
  /\ runs = <<>>
  /\ emitted = <<>>
  /\ calls = 0
  /\ posts = {}
  /\ listener = NoVal
  /\ storage = NoStorage
  /\ client = NoCalls
  /\ delivery = NoDelivery
  /\ QInit
  /\ inits = Constructed
  /\ mem = NewMemoryStorage
  /\ breaker = NewBreaker(DefaultFailureThreshold)
  /\ chain = NoRequest

\* createJob(config), config in cfgs, on a service that has created fewer
\* than max jobs: stores a queued job and returns startJob(id)
CreateJobWithin(cfgs, max) ==
  \E cfg \in cfgs :
    /\ Len(jobs) < max
    /\ LET j  == Len(jobs) + 1
           st == RunStart(NewJob(cfg), j, "create")
       IN  /\ jobs' = Append(jobs, st[1])
           /\ runs' = Append(runs, st[2])
           /\ emitted' = Append(emitted, Emit(NoneEmitted, st[3]))
           /\ posts' = posts \cup Deliveries(j, cfg.webhook, st[3], NoneEmitted)
    /\ client' = [client EXCEPT !.passed = Append(@, cfg)]
    /\ UNCHANGED <<calls, listener, storage, delivery, q, inits, mem, breaker,
                   chain>>

CreateJobFrom(cfgs) == CreateJobWithin(cfgs, MaxJobs)

CreateJob == CreateJobFrom(PlaygroundConfigs)

CreateWebhookJob == CreateJobFrom(WebhookJobConfigs)

\* startJob(id) called directly (POST /playground/jobs/:id/start)
StartJob ==
  \E j \in DOMAIN jobs :
    /\ calls < MaxCalls
    /\ LET st == RunStart(jobs[j], j, "start")
       IN  /\ jobs' = [jobs EXCEPT ![j] = st[1]]
           /\ runs' = Append(runs, st[2])
           /\ emitted' = [emitted EXCEPT ![j] = Emit(@, st[3])]
           /\ posts' = posts \cup Deliveries(j, jobs[j].config.webhook, st[3],
                                          emitted[j])
    /\ calls' = calls + 1
    /\ UNCHANGED <<listener, storage, client, delivery, q, inits, mem,
                   breaker, chain>>

\* the block writing to the job created last instead of the run's own job
Step_OnLatestJob(r, res) ==
  LET j == Len(jobs)
  IN  /\ jobs' = [jobs EXCEPT ![j] = res[1]]
      /\ runs' = [runs EXCEPT ![r] = res[2]]
      /\ emitted' = [emitted EXCEPT ![j] = Emit(@, res[3])]
      /\ posts' = posts \cup Deliveries(j, jobs[j].config.webhook, res[3],
                                        emitted[j])
      /\ UNCHANGED <<calls, listener, storage, client, delivery, q, inits,
                     mem, breaker, chain>>

\* the effect of one synchronous block of run r on its job
Step(r, res) ==
  LET j == runs[r].job
  IN  /\ jobs' = [jobs EXCEPT ![j] = res[1]]
      /\ runs' = [runs EXCEPT ![r] = res[2]]
      /\ emitted' = [emitted EXCEPT ![j] = Emit(@, res[3])]
      /\ posts' = posts \cup Deliveries(j, jobs[j].config.webhook, res[3],
                                        emitted[j])
      /\ UNCHANGED <<calls, listener, storage, client, delivery, q, inits,
                     mem, breaker, chain>>

\* the hook a run awaits resolves
HookResolves ==
  \E r \in DOMAIN runs :
    /\ runs[r].pc = "hook"
    /\ LET run == runs[r]
           job == jobs[run.job]
           p   == Plugins[run.idx]
       IN  CASE run.hook = "before" ->
                  Step(r, <<job, [run EXCEPT !.hook = "execute"], <<>> >>)
             [] run.hook = "execute" /\ p.after ->
                  Step(r, <<job, [run EXCEPT !.hook = "after",
                                             !.metrics = p.metric], <<>> >>)
             [] run.hook = "execute" /\ ~p.after ->
                  Step(r, PluginDone(job, [run EXCEPT !.metrics = p.metric]))
             [] run.hook = "after" ->
                  Step(r, PluginDone(job, run))

\* the hook a run awaits rejects
HookThrows ==
  \E r \in DOMAIN runs :
    /\ runs[r].pc = "hook"
    /\ Step(r, PluginThrew(jobs[runs[r].job], runs[r],
                            HookError(Plugins[runs[r].idx])))

\* every summarize call has settled, those of ok without throwing
SummariesSettle ==
  \E r \in DOMAIN runs : \E ok \in SUBSET Summarizers :
    /\ runs[r].pc = "summary"
    /\ Step(r, Finish(jobs[runs[r].job], runs[r], ok))

\* failJob(id, error) called directly
FailJob ==
  \E j \in DOMAIN jobs : \E msg \in ErrMsgs :
    /\ calls < MaxCalls
    /\ jobs' = [jobs EXCEPT ![j] = FailedJob(jobs[j], msg)]
    /\ emitted' = [emitted EXCEPT ![j] = Emit(@, << <<"jobError", msg>> >>)]
    /\ posts' = posts \cup Deliveries(j, jobs[j].config.webhook,
                                      << <<"jobError", msg>> >>, emitted[j])
    /\ calls' = calls + 1
    /\ UNCHANGED <<runs, listener, storage, client, delivery, q, inits, mem,
                   breaker, chain>>

Next ==
  \/ CreateJob
  \/ StartJob
  \/ HookResolves
  \/ HookThrows
  \/ SummariesSettle
  \/ FailJob

Spec == Init /\ [][Next]_vars

(***************************************************************************)
(* A service on which the caller has registered a listener that throws.    *)
(***************************************************************************)
ListenerInit ==
  /\ jobs = <<>>
  /\ runs = <<>>
  /\ emitted = <<>>
  /\ calls = 0
  /\ posts = {}
  /\ listener \in Listeners
  /\ storage = NoStorage
  /\ client = NoCalls
  /\ delivery = NoDelivery
  /\ QInit
  /\ inits = Constructed
  /\ mem = NewMemoryStorage
  /\ breaker = NewBreaker(DefaultFailureThreshold)
  /\ chain = NoRequest

ListenerSpec == ListenerInit /\ [][Next]_vars

(***************************************************************************)
(* getJob and getProgress.  The outcome of a call is its promise resolved  *)
(* (ok) with an object of the store, the job `of` or its progress, or      *)
(* rejected with an error.                                                 *)
(***************************************************************************)
\* new Error(`Job ${id} not found`).message
NotFound(id) == "Job " \o ToString(id) \o " not found"

\* getJob without the test of line 345
GetJobOutcome_NeverThrows(id) ==
  [ op |-> "getJob", id |-> id, ok |-> TRUE, value |-> "job", of |-> id,
    error |-> NoVal ]

\* getJob(id), lines 343-347
GetJobOutcome(id) ==
  IF id \notin DOMAIN jobs
  THEN [ op |-> "getJob", id |-> id, ok |-> FALSE, value |-> NoVal, of |-> 0,
         error |-> NotFound(id) ]
  ELSE [ op |-> "getJob", id |-> id, ok |-> TRUE, value |-> "job", of |-> id,
         error |-> NoVal ]

\* getProgress(id), lines 349-352: job.progress of what getJob returns; getJob's
\* error goes through
GetProgressOutcome(id) ==
  LET g == GetJobOutcome(id)
  IN  IF g.ok THEN [ g EXCEPT !.op = "getProgress", !.value = "progress" ]
      ELSE [ g EXCEPT !.op = "getProgress" ]

\* job.progress: the fields of PlaygroundProgress
Progress(job) ==
  [ status |-> job.status, endTime |-> job.endTime, error |-> job.error,
    currentPlugin |-> job.currentPlugin,
    completedPlugins |-> job.completedPlugins ]

\* a caller calls getJob(id)
GetJobCalled ==
  \E id \in Ids :
    /\ client' = [client EXCEPT !.reply = GetJobOutcome(id)]
    /\ UNCHANGED <<jobs, runs, emitted, calls, posts, listener, storage,
                   delivery, q, inits, mem, breaker, chain>>

\* a caller calls getProgress(id)
GetProgressCalled ==
  \E id \in Ids :
    /\ client' = [client EXCEPT !.reply = GetProgressOutcome(id)]
    /\ UNCHANGED <<jobs, runs, emitted, calls, posts, listener, storage,
                   delivery, q, inits, mem, breaker, chain>>

LookupNext ==
  \/ CreateJob
  \/ HookResolves
  \/ HookThrows
  \/ SummariesSettle
  \/ FailJob
  \/ GetJobCalled
  \/ GetProgressCalled

LookupSpec == Init /\ [][LookupNext]_vars

(***************************************************************************)
(* The stores handed to the plugins.  A hook receives the run's context,   *)
(* whose storage is the one MemoryStorage made by startJob for the run     *)
(* (line 237), and can reach its own plugin.storage, set once by           *)
(* initializePlugins (lines 176-178).  While a run awaits a hook, the      *)
(* plugin of the hook calls set or delete on either store; what get then   *)
(* returns to a plugin is what the store holds.                            *)
(***************************************************************************)
\* MemoryStorage.set(key, value), lines 128-130
MemoryStorageSet(store, value) == value

\* MemoryStorage.delete(key), lines 132-134
MemoryStorageDelete(store) == Absent

\* MemoryStorage.get(key), lines 124-126: the value, or null (Absent) when the
\* key is absent
MemoryStorageGet(store) == store

\* the plugin whose hook run r awaits calls set on context.storage or on its
\* plugin.storage
StorageSet ==
  \E r \in DOMAIN runs : \E on \in {"context", "plugin"} :
    /\ runs[r].pc = "hook"
    /\ LET n == Plugins[runs[r].idx].name
           v == [plugin |-> n, job |-> runs[r].job]
       IN  IF on = "context"
           THEN /\ runs' = [runs EXCEPT ![r].storage =
                                          MemoryStorageSet(@, v)]
                /\ runs' # runs
                /\ UNCHANGED storage
           ELSE /\ storage' = [storage EXCEPT ![n] = MemoryStorageSet(@, v)]
                /\ storage' # storage
                /\ UNCHANGED runs
    /\ UNCHANGED <<jobs, emitted, calls, posts, listener, client, delivery, q,
                   inits, mem, breaker, chain>>

\* the plugin whose hook run r awaits calls delete on either store
StorageDelete ==
  \E r \in DOMAIN runs : \E on \in {"context", "plugin"} :
    /\ runs[r].pc = "hook"
    /\ LET n == Plugins[runs[r].idx].name
       IN  IF on = "context"
           THEN /\ runs' = [runs EXCEPT ![r].storage = MemoryStorageDelete(@)]
                /\ runs' # runs
                /\ UNCHANGED storage
           ELSE /\ storage' = [storage EXCEPT ![n] = MemoryStorageDelete(@)]
                /\ storage' # storage
                /\ UNCHANGED runs
    /\ UNCHANGED <<jobs, emitted, calls, posts, listener, client, delivery, q,
                   inits, mem, breaker, chain>>

CreateStorageJob == CreateJobWithin(PlaygroundConfigs, MaxStorageJobs)

StorageNext ==
  \/ CreateStorageJob
  \/ HookResolves
  \/ HookThrows
  \/ SummariesSettle
  \/ StorageSet
  \/ StorageDelete

StorageSpec == Init /\ [][StorageNext]_vars

(***************************************************************************)
(* Several jobs of one service whose runs interleave, with failJob calls   *)
(* and a listener of the caller that throws.                               *)
(***************************************************************************)
SiblingConfigs == { c \in PlaygroundConfigs : c.async }

CreateSibling == CreateJobWithin(SiblingConfigs, MaxSiblings)

SiblingNext ==
  \/ CreateSibling
  \/ HookResolves
  \/ HookThrows
  \/ SummariesSettle
  \/ FailJob

SiblingSpec == ListenerInit /\ [][SiblingNext]_vars

(***************************************************************************)
(* The service from the return of its constructor on: initializePlugins    *)
(* goes on whenever the initialize() it awaits settles, while the callers  *)
(* create jobs.                                                            *)
(***************************************************************************)
\* the initialize() awaited settles; ok: it resolved.  The loop sets
\* plugin.storage (ok) or logs the error, and goes on to its next await.
InitializeSettles ==
  \E i \in DOMAIN Plugins : \E ok \in BOOLEAN :
    /\ inits[Plugins[i].name] = "called"
    /\ inits' = InitializeFrom(
                  [inits EXCEPT ![Plugins[i].name] =
                                  IF ok THEN "done" ELSE "threw"], i + 1)
    /\ UNCHANGED <<jobs, runs, emitted, calls, posts, listener, storage,
                   client, delivery, q, mem, breaker, chain>>

ConstructedNext ==
  \/ CreateJob
  \/ HookResolves
  \/ HookThrows
  \/ SummariesSettle
  \/ InitializeSettles

ConstructedSpec == Init /\ [][ConstructedNext]_vars

(***************************************************************************)
(* The deliveries of the PlaygroundService's webhooks.                     *)
(***************************************************************************)
\* the receiver answers a POST with a 2xx status (lines 405-408, 415)
PostOk ==
  \E t \in posts :
    /\ t.phase = "fetch"
    /\ posts' = posts \ {t}
    /\ UNCHANGED <<jobs, runs, emitted, calls, listener, storage, client,
                   delivery, q, inits, mem, breaker, chain>>

\* a POST is rejected or answered with another status (lines 405-426)
PostFails ==
  \E t \in posts :
    /\ t.phase = "fetch"
    /\ IF t.retries + 1 < t.maxRetries
       THEN /\ posts' = (posts \ {t})
                          \cup { [ t EXCEPT !.retries = @ + 1,
                                            !.phase = "backoff" ] }
            /\ UNCHANGED jobs
       ELSE /\ posts' = posts \ {t}
            /\ jobs' = [jobs EXCEPT ![t.job] = DeliveryExhausted(@)]
    /\ UNCHANGED <<runs, emitted, calls, listener, storage, client, delivery,
                   q, inits, mem, breaker, chain>>

\* the backoff timer fires (lines 419-421): the loop makes the next attempt
PostBackoffElapses ==
  \E t \in posts :
    /\ t.phase = "backoff"
    /\ posts' = (posts \ {t}) \cup { [ t EXCEPT !.phase = "fetch" ] }
    /\ UNCHANGED <<jobs, runs, emitted, calls, listener, storage, client,
                   delivery, q, inits, mem, breaker, chain>>

PgWebhookNext ==
  \/ CreateWebhookJob
  \/ HookResolves
  \/ HookThrows
  \/ SummariesSettle
  \/ FailJob
  \/ PostOk
  \/ PostFails
  \/ PostBackoffElapses

PgWebhookSpec == Init /\ [][PgWebhookNext]_vars

(***************************************************************************)
(* The actions of the QueueService.                                        *)
(***************************************************************************)
\* enqueue(job), lines 200-209, on a queue that was passed fewer than max jobs
EnqueueWithin(max) ==
  \E w \in WebhookConfigs :
    /\ Len(q.cjobs) < max
    /\ LET j   == Len(q.cjobs) + 1
           st1 == [ q EXCEPT !.cjobs = Append(@, [status |-> "queued",
                                                  webhook |-> w]),
                             !.dispatches = Append(@, 0),
                             !.pages = Append(@, 0),
                             !.ticks = Append(@, 0),
                             !.queue = QueuePush(@, j) ]
       IN  q' = IF ~ st1.isProcessing
                THEN [ st1 EXCEPT !.isProcessing = TRUE,
                                  !.immediates = @ + 1 ]
                ELSE st1
    /\ UNCHANGED <<pgvars, breaker, chain>>

Enqueue == EnqueueWithin(MaxQueued)

\* the callback passed to setImmediate runs (line 207)
ImmediateRuns ==
  /\ q.immediates > 0
  /\ q' = ProcessNextJob([ q EXCEPT !.immediates = @ - 1 ], 0)
  /\ UNCHANGED <<pgvars, breaker, chain>>

\* crawler.startJob(j) completes the job: jobComplete is emitted and the
\* promise resolves, so that the awaiting processNextJob returns
JobCompletes ==
  \E j \in DOMAIN q.cjobs :
    /\ q.cjobs[j].status = "running"
    /\ q' = HandleJobEnd([ q EXCEPT !.cjobs[j].status = "completed" ],
                         j, "completed")
    /\ UNCHANGED <<pgvars, breaker, chain>>

\* crawler.startJob(j) fails: failJob emits jobError and startJob throws, which
\* the awaiting processNextJob catches
JobFails ==
  \E j \in DOMAIN q.cjobs :
    /\ q.cjobs[j].status = "running"
    /\ q' = CatchStartJob(
              HandleJobEnd([ q EXCEPT !.cjobs[j].status = "failed" ],
                           j, "failed"), j)
    /\ UNCHANGED <<pgvars, breaker, chain>>

\* the receiver answers a POST with a 2xx status (lines 159-161)
FetchOk ==
  \E t \in q.tasks :
    /\ t.phase = "fetch"
    /\ q' = WebhookReturns(q, t)
    /\ UNCHANGED <<pgvars, breaker, chain>>

\* a POST is rejected or answered with another status (lines 163-174)
FetchFails ==
  \E t \in q.tasks :
    /\ t.phase = "fetch"
    /\ q' = IF t.attempt < t.retries - 1
            THEN [ q EXCEPT !.tasks = (@ \ {t})
                              \cup { [ t EXCEPT !.phase = "backoff" ] } ]
            ELSE WebhookReturns(q, t)
    /\ UNCHANGED <<pgvars, breaker, chain>>

\* the backoff timer fires (lines 169-173): the loop makes the next attempt
BackoffElapses ==
  \E t \in q.tasks :
    /\ t.phase = "backoff"
    /\ q' = [ q EXCEPT !.tasks = (@ \ {t})
                          \cup { [ t EXCEPT !.phase = "fetch",
                                            !.attempt = @ + 1 ] } ]
    /\ UNCHANGED <<pgvars, breaker, chain>>

QueueNext ==
  \/ Enqueue
  \/ ImmediateRuns
  \/ JobCompletes
  \/ JobFails
  \/ FetchOk
  \/ FetchFails
  \/ BackoffElapses

QueueSpec == Init /\ [][QueueNext]_vars

(***************************************************************************)
(* The events a crawler emits while a job runs, and the webhooks of both   *)
(* services for every event.                                               *)
(***************************************************************************)
\* the crawler emits pageComplete for a page of a running job, which
\* handlePageComplete receives (lines 36-38)
PageCompletes ==
  \E j \in DOMAIN q.cjobs :
    /\ q.cjobs[j].status = "running"
    /\ q.pages[j] < MaxPages
    /\ q' = HandlePageComplete([ q EXCEPT !.pages[j] = @ + 1 ],
                               j, q.pages[j] + 1)
    /\ UNCHANGED <<pgvars, breaker, chain>>

\* the crawler emits its periodic progress event for a running job:
\* setupEventHandlers (lines 23-39) registers no handler for it
ProgressTick ==
  \E j \in DOMAIN q.cjobs :
    /\ q.cjobs[j].status = "running"
    /\ q.ticks[j] < MaxTicks
    /\ q' = [ q EXCEPT !.ticks[j] = @ + 1 ]
    /\ UNCHANGED <<pgvars, breaker, chain>>

EnqueueCrawl == EnqueueWithin(MaxCrawlJobs)

CrawlEventsNext ==
  \/ EnqueueCrawl
  \/ ImmediateRuns
  \/ JobCompletes
  \/ JobFails
  \/ FetchOk
  \/ FetchFails
  \/ BackoffElapses
  \/ PageCompletes
  \/ ProgressTick

EventsNext ==
  \/ q.cjobs = <<>> /\ PgWebhookNext
  \/ jobs = <<>> /\ CrawlEventsNext

EventsSpec == Init /\ [][EventsNext]_vars

(***************************************************************************)
(* The webhooks of both services.  The PlaygroundService and the           *)
(* QueueService share no state, so a behaviour exercises one of them.      *)
(***************************************************************************)
WebhookNext ==
  \/ q.cjobs = <<>> /\ PgWebhookNext
  \/ jobs = <<>> /\ QueueNext

WebhookSpec == Init /\ [][WebhookNext]_vars

(***************************************************************************)
(* One sendWebhook call of either service, with its receiver.              *)
(***************************************************************************)
\* what the receiver does with a POST: no response (fetch rejects), or a
\* response with one of these statuses
Answers == {Rejects, 200, 204, 302, 500}

\* config.webhook.retries of the job (0: absent)
RetriesGiven == 0..MaxRetriesGiven

\* response.ok taken as true for every status below 400
ResponseOk_Below400(status) == status \in 200..399

\* response.ok: the status is in the range 200-299
ResponseOk(status) == status \in 200..299

\* the bound of the loop of a sendWebhook call for event ev of a job whose
\* config.webhook.retries is r: the PlaygroundService reads config.retries
\* (line 386); of the QueueService's handlers, handleJobComplete and
\* handleJobError pass it (lines 81, 105), handleJobStart and
\* handlePageComplete pass nothing
Limit(emitter, ev, r) ==
  IF emitter = "playground"
  THEN MaxRetries([present |-> TRUE, hasOn |-> FALSE, on |-> {}, retries |-> r])
  ELSE IF ev \in {"completed", "failed"} THEN Retries(r) ELSE Retries(0)

\* the delay of the timer set after a failed attempt, in milliseconds:
\* PlaygroundService, line 420, retries being the attempts failed so far
PgBackoff(retries) == (2 ^ retries) * 1000

\* QueueService, line 171, attempt being the index of the attempt that failed
QueueBackoff(attempt) == (2 ^ attempt) * 1000

\* The body of a POST.  The PlaygroundService builds it in sendAttempt, at
\* every attempt (lines 397-402): the timestamp is the time of the attempt,
\* and data is serialized as it is then; started carries fields of the
\* config, the other events job.progress or job.result, objects the run
\* writes.  The QueueService serializes at every attempt the payload its
\* handler built before the call, timestamp included, from values copied
\* from the job.
Body(d) ==
  IF d.emitter = "playground"
  THEN [ timestamp |-> d.clock,
         data |-> IF d.ev = "started" THEN 0 ELSE d.version ]
  ELSE [ timestamp |-> 0, data |-> 0 ]

\* fetch is called: a POST is made
SendAttempt(d) ==
  [ d EXCEPT !.phase = "fetch",
             !.posts = Append(@, [ body |-> Body(d), answer |-> Pending ]) ]

\* the POST awaited is answered with a
Answered(d, a) ==
  LET d1 == [ d EXCEPT !.posts[Len(d.posts)].answer = a ]
      f  == d.failed + 1
  IN  IF a # Rejects /\ ResponseOk(a)
      THEN [ d1 EXCEPT !.phase = "returned" ]
      ELSE IF f < d.limit
      THEN [ d1 EXCEPT !.failed = f,
                       !.phase = "backoff",
                       !.waits = Append(@, IF d.emitter = "playground"
                                           THEN PgBackoff(f)
                                           ELSE QueueBackoff(f - 1)) ]
      ELSE [ d1 EXCEPT !.failed = f, !.phase = "returned" ]

\* a handler calls sendWebhook, which makes its first POST
DeliveryBegins ==
  \E em \in {"playground", "queue"} : \E ev \in WebhookEventTypes :
  \E r \in RetriesGiven :
    /\ delivery.phase = "idle"
    /\ delivery' = SendAttempt([ NoDelivery EXCEPT
                                   !.emitter = em, !.ev = ev,
                                   !.limit = Limit(em, ev, r) ])
    /\ UNCHANGED <<jobs, runs, emitted, calls, posts, listener, storage,
                   client, q, inits, mem, breaker, chain>>

\* the receiver answers the POST, or fetch rejects
ReceiverAnswers ==
  \E a \in Answers :
    /\ delivery.phase = "fetch"
    /\ delivery' = Answered(delivery, a)
    /\ UNCHANGED <<jobs, runs, emitted, calls, posts, listener, storage,
                   client, q, inits, mem, breaker, chain>>

\* the backoff timer fires: the loop makes the next attempt
TimerFires ==
  /\ delivery.phase = "backoff"
  /\ delivery' = SendAttempt([ delivery EXCEPT
                                 !.clock = @ + delivery.waits[Len(delivery.waits)] ])
  /\ UNCHANGED <<jobs, runs, emitted, calls, posts, listener, storage,
                 client, q, inits, mem, breaker, chain>>

\* the run of the job goes on while a webhook of the PlaygroundService is
\* being sent: it writes job.progress (lines 247, 269) or job.result (265, 286)
JobWritten ==
  /\ delivery.phase \in {"fetch", "backoff"}
  /\ delivery.emitter = "playground"
  /\ delivery.version < MaxWrites
  /\ delivery' = [ delivery EXCEPT !.version = @ + 1 ]
  /\ UNCHANGED <<jobs, runs, emitted, calls, posts, listener, storage,
                 client, q, inits, mem, breaker, chain>>

DeliveryNext ==
  \/ DeliveryBegins
  \/ ReceiverAnswers
  \/ TimerFires
  \/ JobWritten

DeliverySpec == Init /\ [][DeliveryNext]_vars

(***************************************************************************)
(* POST /crawl/:sitedomain (crawl.ts 172-205): after crawler.createJob has *)
(* resolved, the route calls queue.enqueue(job) and builds its response    *)
(* in the same synchronous block, from getQueueLength() and                *)
(* getIsProcessing() (queue-service.ts 211-217) as enqueue left them.      *)
(***************************************************************************)
\* queueInfo of the accept response, read from the QueueService st
QueueInfo(st) ==
  [ position       |-> Len(st.queue),
    isProcessing   |-> st.isProcessing,
    estimatedStart |-> IF st.isProcessing
                       THEN "Will start after current job completes"
                       ELSE "Starting shortly" ]

\* this step is an enqueue call
Enqueued == Len(q'.cjobs) = Len(q.cjobs) + 1

\* Scheduling: a setImmediate callback and a timer callback run, and (the
\* premise of the liveness claim) every startJob call returns or throws.
\* Whether and when the webhook receiver answers is left to the receiver.
QueueFairSpec ==
  /\ QueueSpec
  /\ WF_vars(ImmediateRuns)
  /\ WF_vars(JobCompletes \/ JobFails)
  /\ WF_vars(BackoffElapses)

(***************************************************************************)
(* One MemoryStorage used through its four methods (lines 121-139).        *)
(***************************************************************************)
\* get(key), lines 124-126: `this.storage.get(key) || null`
MapGet(m, k) == IF m[k] \in Falsy THEN Null ELSE m[k]

\* set(key, value), lines 128-130
MapSet(m, k, v) == [m EXCEPT ![k] = v]

\* delete(key), lines 132-134
MapDelete(m, k) == [m EXCEPT ![k] = NoVal]

\* clear(), lines 136-138
MapClear(m) == [k \in Keys |-> NoVal]

MemGet ==
  \E k \in Keys :
    /\ mem' = [mem EXCEPT !.reply = [key |-> k, value |-> MapGet(mem.map, k),
                                     at |-> mem.calls + 1],
                          !.calls = @ + 1]
    /\ mem.calls < MaxStorageCalls
    /\ UNCHANGED <<jobs, runs, emitted, calls, posts, listener, storage,
                   client, delivery, inits, q, breaker, chain>>

MemSet ==
  \E k \in Keys : \E v \in JsValues :
    /\ mem' = [mem EXCEPT !.map = MapSet(@, k, v), !.calls = @ + 1]
    /\ mem.calls < MaxStorageCalls
    /\ UNCHANGED <<jobs, runs, emitted, calls, posts, listener, storage,
                   client, delivery, inits, q, breaker, chain>>

MemDelete ==
  \E k \in Keys :
    /\ mem' = [mem EXCEPT !.map = MapDelete(@, k), !.calls = @ + 1]
    /\ mem.calls < MaxStorageCalls
    /\ UNCHANGED <<jobs, runs, emitted, calls, posts, listener, storage,
                   client, delivery, inits, q, breaker, chain>>

MemClear ==
  /\ mem' = [mem EXCEPT !.map = MapClear(@), !.calls = @ + 1]
  /\ mem.calls < MaxStorageCalls
  /\ UNCHANGED <<jobs, runs, emitted, calls, posts, listener, storage,
                 client, delivery, inits, q, breaker, chain>>

MemNext ==
  \/ MemGet
  \/ MemSet
  \/ MemDelete
  \/ MemClear

MemSpec == Init /\ [][MemNext]_vars

(***************************************************************************)
(* The CircuitBreaker and the rate limiter that owns one                   *)
(* (circuit-breaker.ts 15-78 and 131-180).                                 *)
(***************************************************************************)
\* the failureThreshold a breaker is configured with (lines 24, 187)
FailureThresholds == {1, 2, 3, DefaultFailureThreshold}

\* resetFailureCount, lines 33-36
ResetFailureCount(b) == [b EXCEPT !.failureCount = 0, !.lastFailureTime = 0]

\* shouldResetWindow, lines 38-40; elapsed: more than monitorWindow has passed
\* since the last failure.  With lastFailureTime = 0 the difference is Date.now().
ShouldResetWindow(b, elapsed) ==
  IF b.lastFailureTime = 0 THEN TRUE ELSE elapsed

\* recordFailure, lines 42-62
RecordFailureOn(b, elapsed) ==
  LET b1 == IF ShouldResetWindow(b, elapsed) THEN ResetFailureCount(b) ELSE b
      b2 == [b1 EXCEPT !.failureCount = @ + 1, !.lastFailureTime = 1]
  IN  IF b2.failureCount >= b2.failureThreshold
      THEN [b2 EXCEPT !.state = "OPEN", !.timers = @ + 1]
      ELSE b2

\* recordSuccess, lines 64-69
RecordSuccessOn(b) ==
  IF b.state = "HALF_OPEN"
  THEN ResetFailureCount([b EXCEPT !.state = "CLOSED"])
  ELSE b

\* isOpen, lines 71-73
IsOpen(b) == b.state = "OPEN"

\* the callback of the setTimeout of line 58
ResetTimerOn(b) == [b EXCEPT !.state = "HALF_OPEN", !.timers = @ - 1]

\* a caller calls breaker.recordFailure()
RecordFailure ==
  \E elapsed \in BOOLEAN :
    /\ breaker' = RecordFailureOn(breaker, elapsed)
    /\ breaker'.failureCount <= MaxFailureCount
    /\ breaker'.timers <= MaxTimers
    /\ UNCHANGED <<pgvars, q, chain>>

\* a caller calls breaker.recordSuccess()
RecordSuccess ==
  /\ breaker' = RecordSuccessOn(breaker)
  /\ UNCHANGED <<pgvars, q, chain>>

\* a reset timer fires
ResetTimerFires ==
  /\ breaker.timers > 0
  /\ breaker' = ResetTimerOn(breaker)
  /\ UNCHANGED <<pgvars, q, chain>>

\* the rate limiter's handler (lines 148-166) for a request over the limit
LimitExceeded ==
  \E elapsed \in BOOLEAN :
    /\ breaker' = IF IsOpen(breaker) THEN breaker
                  ELSE RecordFailureOn(breaker, elapsed)
    /\ breaker'.failureCount <= MaxFailureCount
    /\ breaker'.timers <= MaxTimers
    /\ UNCHANGED <<pgvars, q, chain>>

\* requestWasSuccessful (lines 167-173) for a response with statusCode < 400
RequestWasSuccessful ==
  /\ breaker' = RecordSuccessOn(breaker)
  /\ UNCHANGED <<pgvars, q, chain>>

BreakerInit ==
  /\ jobs = <<>>
  /\ runs = <<>>
  /\ emitted = <<>>
  /\ calls = 0
  /\ posts = {}
  /\ listener = NoVal
  /\ storage = NoStorage
  /\ client = NoCalls
  /\ delivery = NoDelivery
  /\ QInit
  /\ inits = Constructed
  /\ mem = NewMemoryStorage
  /\ breaker \in { NewBreaker(t) : t \in FailureThresholds }
  /\ chain = NoRequest

BreakerNext ==
  \/ RecordFailure
  \/ RecordSuccess
  \/ ResetTimerFires
  \/ LimitExceeded
  \/ RequestWasSuccessful

BreakerSpec == BreakerInit /\ [][BreakerNext]_vars

(***************************************************************************)
(* createMiddlewareChain (circuit-breaker.ts 213-236).  What a middleware  *)
(* does when it is called with the callback of line 222:                   *)
(*   "next"            it calls the callback with no argument              *)
(*   "nextError"       it calls the callback with an error                 *)
(*   "throws"          it throws before calling the callback               *)
(*   "rejects"         it is an async function that throws: the promise it *)
(*                     returns rejects and the callback is not called      *)
(*   "nextThenThrows"  it calls the callback with no argument, then throws *)
(* A call of the outer next is recorded by its argument: 0 for none, i for *)
(* the error of the i-th middleware.                                       *)
(***************************************************************************)
Behaviours == {"next", "nextError", "throws", "rejects", "nextThenThrows"}

Chains == UNION { [1..n -> Behaviours] : n \in 0..MaxMiddlewares }

\* the outer next is called with argument arg (lines 217, 230)
CallNext(c, arg) ==
  [c EXCEPT !.nexts = Append(@, arg), !.phase = "returned", !.awaiting = 0]

\* executeMiddleware(index) up to its await, lines 215-226; the middlewares
\* are numbered from 1, so that index = Len + 1 is `index === length`
ExecuteMiddleware(c, index) ==
  IF index = Len(c.mws) + 1
  THEN CallNext(c, 0)
  ELSE [c EXCEPT !.started = Append(@, index), !.awaiting = index,
                 !.phase = "awaiting"]

\* the middleware awaited acts.  The promise of line 221 takes its first
\* settlement: resolve() before a throw wins, a throw in the executor
\* rejects, and the promise returned by the middleware is not looked at.
MiddlewareActed(c) ==
  LET i == c.awaiting
      b == c.mws[i]
  IN  CASE b \in {"next", "nextThenThrows"} -> ExecuteMiddleware(c, i + 1)
        [] b \in {"nextError", "throws"}    -> CallNext(c, i)
        [] b = "rejects" -> [c EXCEPT !.phase = "pending forever"]

\* express calls the handler for a request
RequestArrives ==
  \E mws \in Chains :
    /\ chain.phase = "idle"
    /\ chain' = ExecuteMiddleware([NoRequest EXCEPT !.mws = mws], 1)
    /\ UNCHANGED <<pgvars, q, breaker>>

MiddlewareActs ==
  /\ chain.phase = "awaiting"
  /\ chain' = MiddlewareActed(chain)
  /\ UNCHANGED <<pgvars, q, breaker>>

ChainNext ==
  \/ RequestArrives
  \/ MiddlewareActs

ChainSpec == Init /\ [][ChainNext]_vars

(***************************************************************************)
(* Observations used by the properties.                                    *)
(***************************************************************************)
Terminal == {"completed", "failed"}

\* getJob(id), lines 343-347
GetJob(j) == jobs[j]

\* number of jobError events counted in cnt
ErrorsIn(cnt) ==
  cnt[<<"jobError", "boom">>] + cnt[<<"jobError", "bang">>]
    + cnt[<<"jobError", ListenerError>>]

\* number of jobError events emitted for job j so far
JobErrors(j) == ErrorsIn(emitted[j])

\* this step is the return of run r (its promise resolves with the job)
Returns(r) == runs[r].pc = "summary" /\ runs'[r].pc = "returned"

\* this step is a direct failJob call
FailJobCalled == calls' = calls + 1 /\ runs' = runs

\* this step is a direct startJob call
StartJobCalled == calls' = calls + 1 /\ Len(runs') = Len(runs) + 1

\* the suspension points of a startJob call that has settled: its promise has
\* resolved or rejected
Settled == {"returned", "rejected"}

(***************************************************************************)
(* C1: the values of progress.status follow queued -> running ->           *)
(* (completed | failed): no step changes a job's status except from        *)
(* queued to running, from running to completed or from running to failed. *)
(* (createJob writes queued and then running in one synchronous block.)    *)
(***************************************************************************)
C1_StatusFollowsLifecycle ==
  [][\A j \in DOMAIN jobs :
       jobs'[j].status # jobs[j].status
         => <<jobs[j].status, jobs'[j].status>>
              \in { <<"queued", "running">>, <<"running", "completed">>,
                    <<"running", "failed">> }]_vars

(***************************************************************************)
(* C3: when a hook of a selected plugin throws in a run, the run goes on   *)
(* with the next selected plugin (or the summaries when there is none),    *)
(* and when the run returns the job is completed and result.error holds    *)
(* the message and the plugin name of the last plugin that threw in it.    *)
(***************************************************************************)
C3_PluginFailureIsolated ==
  [][\A r \in DOMAIN runs :
       /\ (runs[r].pc = "hook" /\ runs'[r].failed # runs[r].failed)
            => LET k == NextSelected(jobs[runs[r].job].config, runs[r].idx + 1)
               IN  IF k = 0 THEN runs'[r].pc = "summary"
                   ELSE /\ runs'[r].pc = "hook"
                        /\ runs'[r].idx = k
                        /\ runs'[r].hook = FirstHook(Plugins[k])
       /\ (Returns(r) /\ runs[r].failed # NoError)
            => /\ jobs'[runs[r].job].status = "completed"
               /\ jobs'[runs[r].job].rerror = runs[r].failed]_vars

(***************************************************************************)
(* C4: createJob with config.async = true returns while the job is         *)
(* running: the returned job has status running, no completed plugin and   *)
(* no metrics.                                                             *)
(***************************************************************************)
C4_AsyncCreateReturnsRunning ==
  [][\A r \in DOMAIN runs :
       (Returns(r) /\ runs[r].via = "create"
          /\ jobs[runs[r].job].config.async)
         => /\ jobs'[runs[r].job].status = "running"
            /\ jobs'[runs[r].job].completedPlugins = <<>>
            /\ jobs'[runs[r].job].metrics = <<>>]_vars

(***************************************************************************)
(* C5: createJob in synchronous mode returns the final job: status         *)
(* completed, completedPlugins exactly the plugins whose hooks all         *)
(* succeeded in the run, one metrics entry per such plugin in the same     *)
(* order, and result.summary defined.                                      *)
(***************************************************************************)
C5_SyncCreateReturnsFinalJob ==
  [][\A r \in DOMAIN runs :
       (Returns(r) /\ runs[r].via = "create"
          /\ ~ jobs[runs[r].job].config.async)
         => LET job == jobs'[runs[r].job]
            IN  /\ job.status = "completed"
                /\ job.completedPlugins = runs[r].done
                /\ Len(job.metrics) = Len(runs[r].done)
                /\ \A i \in DOMAIN job.metrics :
                     job.metrics[i][1] = runs[r].done[i]
                /\ job.hasSummary]_vars

C2_AtMostOneRunning ==
  Cardinality({ j \in DOMAIN q.cjobs : q.cjobs[j].status = "running" }) <= 1

(***************************************************************************)
(* C8: the queue calls startJob in the order of the enqueue calls: the     *)
(* i-th startJob call is for the i-th job enqueued (the jobs are numbered  *)
(* in enqueue order).                                                      *)
(***************************************************************************)
C8_StartsInEnqueueOrder ==
  \A i \in DOMAIN q.started : q.started[i] = i

\* three jobs were enqueued and started, the last two enqueued while an
\* earlier one was running, and the first one failed
C8_Witness ==
  /\ Len(q.started) = 3
  /\ q.cjobs[1].status = "failed"
  /\ q.cjobs[2].status = "completed"
  /\ q.cjobs[3].status = "running"
  /\ q.dispatches[1] = 2

(***************************************************************************)
(* C9: a job whose startJob threw causes one dispatch, as a job whose      *)
(* startJob returned does: processNextJob is called at most once because   *)
(* of the end of any one job.                                              *)
(***************************************************************************)
C9_OneDispatchPerFinishedJob ==
  \A j \in DOMAIN q.cjobs : q.dispatches[j] <= 1

(***************************************************************************)
(* C10: every job passed to enqueue is eventually started, if every        *)
(* startJob call returns or throws, whatever the webhook receiver does.    *)
(***************************************************************************)
C10_EveryEnqueuedJobStarts ==
  \A j \in 1..MaxQueued :
    (j \in DOMAIN q.cjobs) ~> (\E i \in DOMAIN q.started : q.started[i] = j)

C12_AttemptsWithinRetries ==
  /\ \A t \in posts :
       LET r == jobs[t.job].config.webhook.retries
       IN  t.retries + 1 <= (IF r = 0 THEN 3 ELSE r)
  /\ \A t \in q.tasks :
       LET r == q.cjobs[t.job].webhook.retries
       IN  t.attempt + 1 <= (IF r = 0 THEN 3 ELSE r)

(***************************************************************************)
(* C13: what the receiver does with a webhook of the PlaygroundService     *)
(* never affects the job: a step of a delivery (a POST answered, rejected  *)
(* or refused, a backoff elapsed, the attempts exhausted) changes no job,  *)
(* settles no startJob call and emits no event, so a job goes through the  *)
(* same states whatever happens to its webhooks.                           *)
(***************************************************************************)
C13_DeliveryLeavesJobAlone ==
  [][(\E t \in posts : t \notin posts')
       => jobs' = jobs /\ runs' = runs /\ emitted' = emitted]_vars

\* the job has completed and its createJob call has returned; the started
\* webhook is gone and two attempts of the completed webhook have failed
C13_Witness ==
  \E j \in DOMAIN jobs :
    /\ jobs[j].config.webhook.on = {"started", "completed"}
    /\ jobs[j].status = "completed"
    /\ runs[1].pc = "returned"
    /\ \A t \in posts : t.ev # "started"
    /\ \E t \in posts : t.ev = "completed" /\ t.retries = 2

(***************************************************************************)
(* C14: the plugin events of a job run lie between its jobStart and its    *)
(* terminal event: when a job that has been started once emits             *)
(* pluginStart, pluginComplete or pluginError, its jobStart has been       *)
(* emitted and neither jobComplete nor jobError has.                       *)
(***************************************************************************)
C14_PluginEventsBeforeTerminal ==
  [][\A j \in DOMAIN jobs : \A k \in PluginEvents \X PluginNames :
       (Len(runs') = 1 /\ emitted'[j][k] > emitted[j][k])
         => /\ emitted[j][<<"jobStart", NoVal>>] = 1
            /\ emitted[j][<<"jobComplete", NoVal>>] = 0
            /\ JobErrors(j) = 0]_vars

(***************************************************************************)
(* C15: at most one terminal event is emitted for a job: jobComplete and   *)
(* jobError together are emitted at most once.                             *)
(***************************************************************************)
C15_OneTerminalEvent ==
  \A j \in DOMAIN jobs :
    emitted[j][<<"jobComplete", NoVal>>] + JobErrors(j) <= 1

C17_SkippedPluginUntouched ==
  \A j \in DOMAIN jobs : \A i \in DOMAIN Plugins :
    LET p   == Plugins[i]
        cfg == jobs[j].config
    IN  (~ p.enabled \/ (cfg.hasPlugins /\ p.name \notin cfg.plugins))
        => /\ \A e \in PluginEvents : emitted[j][<<e, p.name>>] = 0
           /\ \A k \in DOMAIN jobs[j].completedPlugins :
                jobs[j].completedPlugins[k] # p.name
           /\ \A k \in DOMAIN jobs[j].metrics :
                jobs[j].metrics[k][1] # p.name
           /\ \A r \in DOMAIN runs :
                ~ (runs[r].job = j /\ runs[r].pc = "hook" /\ runs[r].idx = i)

\* a job whose config.plugins lists b and the disabled c, not a, has completed
\* with b as its only completed plugin
C17_Witness ==
  \E j \in DOMAIN jobs :
    /\ jobs[j].config.hasPlugins
    /\ jobs[j].status = "completed"
    /\ jobs[j].completedPlugins = << "b" >>
    /\ emitted[j][<<"pluginComplete", "b">>] = 1

(***************************************************************************)
(* C18: when a run returns, result.summary is defined and, for every       *)
(* plugin whose summarize returned, result.summary[name] is what summarize *)
(* returned for exactly the metrics recorded for that plugin in            *)
(* result.metrics, in recording order, falsy values included.  (A          *)
(* summarize of the model returns the list it was given.)                  *)
(***************************************************************************)
C18_SummarizeGetsRunMetrics ==
  [][\A r \in DOMAIN runs :
       Returns(r)
         => LET job == jobs'[runs[r].job]
                Recorded(n) == LET Is(m) == m[1] = n
                               IN  SelectSeq(job.metrics, Is)
            IN  /\ job.hasSummary
                /\ job.status = "completed"
                /\ \A e \in job.summary : e[2] = Recorded(e[1])]_vars

(***************************************************************************)
(* C19: startJob(id) on a job that is not queued is an idempotent gate: it *)
(* changes no field of the job and emits no event (no jobStart, no         *)
(* pluginStart of a hook run again); and once a job is completed or failed *)
(* no step changes any of its fields.                                      *)
(***************************************************************************)
C19_StartJobIsGate ==
  [][\A j \in DOMAIN jobs :
       /\ (StartJobCalled /\ jobs[j].status # "queued")
            => jobs'[j] = jobs[j] /\ emitted'[j] = emitted[j]
       /\ jobs[j].status \in Terminal => jobs'[j] = jobs[j]]_vars

(***************************************************************************)
(* C20: whenever a startJob call settles, the job's status is terminal:    *)
(* completed if the call resolves; failed, with jobError emitted by the    *)
(* call, if it rejects.                                                    *)
(***************************************************************************)
C20_SettledJobIsTerminal ==
  [][\A r \in DOMAIN runs' :
       ( /\ runs'[r].pc \in Settled
         /\ (r \in DOMAIN runs => runs[r].pc \notin Settled) )
         => LET j == runs'[r].job
            IN  /\ jobs'[j].status \in Terminal
                /\ runs'[r].pc = "returned" => jobs'[j].status = "completed"
                /\ runs'[r].pc = "rejected"
                     => /\ jobs'[j].status = "failed"
                        /\ ErrorsIn(emitted'[j])
                             > (IF j \in DOMAIN jobs
                                THEN ErrorsIn(emitted[j]) ELSE 0)]_vars

(***************************************************************************)
(* C21: plugin storage is isolated: whenever a run awaits a hook of a      *)
(* plugin, what the plugin can read from the stores it is given            *)
(* (context.storage and its plugin.storage) is nothing or a value that     *)
(* this plugin set during a run of this job: never a value set by another  *)
(* plugin, and never a value set during a run of another job.              *)
(***************************************************************************)
C21_StorageIsolated ==
  \A r \in DOMAIN runs :
    runs[r].pc = "hook"
      => LET n == Plugins[runs[r].idx].name
             Own(v) == v = Absent \/ (v.plugin = n /\ v.job = runs[r].job)
         IN  /\ Own(MemoryStorageGet(runs[r].storage))
             /\ Own(MemoryStorageGet(storage[n]))

(***************************************************************************)
(* C22: the store keeps every job under its id with the config that was    *)
(* passed to createJob, and a getJob or getProgress call changes nothing:  *)
(* called with the id of a job created, getJob resolves with the stored    *)
(* job, whose config equals the config passed, and getProgress with that   *)
(* job's progress; called with any other id, both reject with the error    *)
(* 'Job <id> not found'.                                                   *)
(***************************************************************************)
C22_LookupReturnsStoredJob ==
  /\ [](\A j \in DOMAIN jobs : jobs[j].config = client.passed[j])
  /\ [][client'.reply # client.reply
          => LET rp == client'.reply
             IN  /\ jobs' = jobs /\ runs' = runs /\ emitted' = emitted
                 /\ rp.id \in 1..Len(jobs)
                      => /\ rp.ok /\ rp.of = rp.id
                         /\ rp.value = (IF rp.op = "getJob" THEN "job"
                                        ELSE "progress")
                         /\ jobs'[rp.of].config = client.passed[rp.id]
                         /\ Progress(jobs'[rp.of]).status = jobs[rp.id].status
                 /\ rp.id \notin 1..Len(jobs)
                      => /\ ~ rp.ok
                         /\ rp.error = "Job " \o ToString(rp.id)
                                          \o " not found"]_vars

\* getProgress was called with the id of a job that has completed, after a
\* call with an unknown id was rejected
C22_Witness ==
  /\ client.reply.op = "getProgress"
  /\ client.reply.ok
  /\ client.reply.id \in DOMAIN jobs
  /\ jobs[client.reply.id].status = "completed"
  /\ jobs[client.reply.id].config = client.passed[client.reply.id]

(***************************************************************************)
(* C23: internal events map one-to-one to webhooks: jobStart to started,   *)
(* jobComplete to completed, jobError to failed, pluginComplete            *)
(* (playground), pageComplete (crawl) and the periodic crawl progress      *)
(* event to progress.  In every step, the sendWebhook calls begun for a    *)
(* job are exactly one for each such event emitted for it in the step      *)
(* whose mapped name the job's filter admits, of that name; no other       *)
(* event (pluginStart, pluginError) begins one.                            *)
(***************************************************************************)
C23_EventsMapToWebhooks ==
  /\ [][\A j \in DOMAIN jobs' :
          LET w == jobs'[j].config.webhook
              Name(e) == CASE e = "jobStart"       -> "started"
                           [] e = "jobComplete"    -> "completed"
                           [] e = "jobError"       -> "failed"
                           [] e = "pluginComplete" -> "progress"
                           [] OTHER                -> NoVal
              Raised == { k \in EventKeys :
                            emitted'[j][k] > (IF j \in DOMAIN jobs
                                              THEN emitted[j][k] ELSE 0) }
              Due == { k \in Raised :
                         /\ Name(k[1]) # NoVal
                         /\ w.present
                         /\ (w.hasOn => Name(k[1]) \in w.on) }
              Begun == { t \in posts' \ posts :
                           t.job = j /\ t.retries = 0 /\ t.phase = "fetch" }
          IN  /\ Cardinality(Begun) = Cardinality(Due)
              /\ \A k \in Due :
                   \E t \in Begun : /\ t.ev = Name(k[1])
                                     /\ t.about = k[2]
                                     /\ t.n = emitted'[j][k]]_vars
  /\ [][\A j \in DOMAIN q.cjobs :
          LET w == q.cjobs[j].webhook
              Became(st) == q.cjobs[j].status # st /\ q'.cjobs[j].status = st
              Raised ==
                { e \in { <<"jobStart", "started", 0>>,
                          <<"jobComplete", "completed", 0>>,
                          <<"jobError", "failed", 0>>,
                          <<"pageComplete", "progress", q'.pages[j]>>,
                          <<"progress", "progress", 0>> } :
                    \/ e[1] = "jobStart" /\ Became("running")
                    \/ e[1] = "jobComplete" /\ Became("completed")
                    \/ e[1] = "jobError" /\ Became("failed")
                    \/ e[1] = "pageComplete" /\ q'.pages[j] > q.pages[j]
                    \/ e[1] = "progress" /\ q'.ticks[j] > q.ticks[j] }
              Due == { e \in Raised : w.present /\ (w.hasOn => e[2] \in w.on) }
              Begun == { t \in q'.tasks \ q.tasks :
                           t.job = j /\ t.attempt = 0 /\ t.phase = "fetch" }
          IN  /\ Cardinality(Begun) = Cardinality(Due)
              /\ \A e \in Due :
                   \E t \in Begun : t.ev = e[2] /\ t.about = e[3]]_vars

(***************************************************************************)
(* C24: the delivery of one webhook event stops at the first successful    *)
(* attempt.  Of the POSTs a sendWebhook call has made, only the last can   *)
(* have been answered with a 2xx status, and then the call has returned;   *)
(* an attempt whose fetch rejected or whose response was not 2xx is        *)
(* followed by another attempt while attempts remain, so that a call       *)
(* returns either after a 2xx answer or after as many POSTs as its loop    *)
(* allows (answers 500, 500, 200 with three attempts allowed: three POSTs; *)
(* answer 200 at once: one POST).                                          *)
(***************************************************************************)
C24_StopsAtFirstSuccess ==
  LET n     == Len(delivery.posts)
      Ok(i) == delivery.posts[i].answer \in 200..299
  IN  /\ n <= delivery.limit
      /\ \A i \in 1..(n - 1) :
           delivery.posts[i].answer # Pending /\ ~ Ok(i)
      /\ delivery.phase = "fetch" => delivery.posts[n].answer = Pending
      /\ delivery.phase = "backoff"
           => delivery.posts[n].answer # Pending /\ ~ Ok(n)
                /\ n < delivery.limit
      /\ delivery.phase = "returned"
           => delivery.posts[n].answer # Pending
                /\ (Ok(n) \/ n = delivery.limit)

\* a receiver answered 500, 500 and 200 to a call allowed three attempts: the
\* call has returned after three POSTs
C24_Witness ==
  /\ delivery.phase = "returned"
  /\ delivery.limit = 3
  /\ Len(delivery.posts) = 3
  /\ delivery.posts[1].answer = 500
  /\ delivery.posts[2].answer = 500
  /\ delivery.posts[3].answer = 200

(***************************************************************************)
(* C25: in both emitters the wait between a failed attempt and the next    *)
(* one doubles from 1 second: the timer set after failed attempt n         *)
(* (counted from 0) is of 2^n seconds, and no timer is set after the last  *)
(* attempt the loop allows.                                                *)
(***************************************************************************)
C25_BackoffDoublesFromOneSecond ==
  /\ \A i \in DOMAIN delivery.waits :
       delivery.waits[i] = (2 ^ (i - 1)) * 1000
  /\ delivery.waits # <<>> => Len(delivery.waits) < delivery.limit

(***************************************************************************)
(* C26: all the attempts made for one webhook event carry the same body:   *)
(* the body of every POST of a sendWebhook call, its timestamp and the     *)
(* job fields in it included, equals the body of the call's first POST,    *)
(* whatever the job's run writes between the attempts.                     *)
(***************************************************************************)
C26_RetriesCarrySameBody ==
  \A i \in DOMAIN delivery.posts :
    delivery.posts[i].body = delivery.posts[1].body

(***************************************************************************)
(* C27: a listener that throws cannot break the engine: on a service with  *)
(* a listener that throws on an event, every run goes on as if it had not  *)
(* thrown, so that no startJob call rejects, no job is failed with the     *)
(* listener's error and no jobError is emitted for it.                     *)
(***************************************************************************)
C27_ThrowingListenerHarmless ==
  /\ \A r \in DOMAIN runs : runs[r].pc # "rejected"
  /\ \A j \in DOMAIN jobs :
       /\ jobs[j].error # ListenerError
       /\ jobs[j].rerror.message # ListenerError
       /\ emitted[j][<<"jobError", ListenerError>>] = 0

(***************************************************************************)
(* C28: the accept response of POST /crawl/:sitedomain reports the queue   *)
(* as the API reference shows: for a job submitted while the queue is      *)
(* empty and idle, queueInfo has position 0, isProcessing false and        *)
(* estimatedStart 'Starting shortly'; isProcessing true and 'Will start    *)
(* after current job completes' are reported only when an earlier job is   *)
(* being processed (has been started and has not ended).                   *)
(***************************************************************************)
C28_AcceptReportsQueue ==
  [][Enqueued
       => LET info == QueueInfo(q')
          IN  /\ (q.queue = <<>> /\ ~ q.isProcessing)
                   => /\ info.position = 0
                      /\ ~ info.isProcessing
                      /\ info.estimatedStart = "Starting shortly"
              /\ ( \/ info.isProcessing
                   \/ info.estimatedStart
                        = "Will start after current job completes" )
                   => \E j \in DOMAIN q.cjobs :
                        q.cjobs[j].status = "running"]_vars

(***************************************************************************)
(* C29: the plugins of a run execute one after another in configuration    *)
(* order, each with its hooks in the order before, execute, after.  A run  *)
(* awaits one hook at a time.  It starts with the first plugin it does not *)
(* skip; from a hook it goes to the next hook of the same plugin (execute  *)
(* after before, after after execute) or, when the plugin has no hook left *)
(* or the hook threw, to the first hook of the next plugin in              *)
(* configuration order that it does not skip, and to the summaries when    *)
(* there is none: no hook of a later plugin starts before the hooks of an  *)
(* earlier one have ended.                                                 *)
(***************************************************************************)
C29_PluginsInConfigurationOrder ==
  [][\A r \in DOMAIN runs' :
       LET new  == runs'[r]
           cfg  == jobs'[new.job].config
           Sel(i) == /\ Plugins[i].enabled
                     /\ (cfg.hasPlugins => Plugins[i].name \in cfg.plugins)
           \* new is at the first hook of the first plugin after index i that
           \* is not skipped, or at the summaries if there is none
           Enters(i) ==
             IF \E k \in DOMAIN Plugins : k > i /\ Sel(k)
             THEN /\ new.pc = "hook"
                  /\ new.idx > i /\ Sel(new.idx)
                  /\ \A k \in DOMAIN Plugins : (i < k /\ k < new.idx) => ~ Sel(k)
                  /\ new.hook = (IF Plugins[new.idx].before THEN "before"
                                 ELSE "execute")
             ELSE new.pc = "summary"
       IN  IF r \notin DOMAIN runs
           THEN Enters(0)
           ELSE LET old == runs[r]
                    p   == Plugins[old.idx]
                IN  (old.pc = "hook" /\ new # old /\ new.storage = old.storage)
                    => IF new.failed # old.failed
                       THEN Enters(old.idx)
                       ELSE IF \/ old.hook = "before"
                               \/ (old.hook = "execute" /\ p.after)
                       THEN /\ new.pc = "hook" /\ new.idx = old.idx
                            /\ new.hook = (IF old.hook = "before"
                                           THEN "execute" ELSE "after")
                       ELSE Enters(old.idx)]_vars

\* the only run of a job went through plugin a (before, execute, after) and
\* then plugin b, and has returned
C29_Witness ==
  \E j \in DOMAIN jobs :
    /\ Len(runs) = 1
    /\ runs[1].pc = "returned"
    /\ jobs[j].completedPlugins = << "a", "b" >>
    /\ emitted[j][<<"pluginStart", "a">>] = 1
    /\ emitted[j][<<"pluginStart", "b">>] = 1

(***************************************************************************)
(* C30: in every reachable state progress.completedPlugins has no          *)
(* duplicate entry and lists the plugins in the order in which they        *)
(* completed: a plugin that completes is appended at its end, whatever     *)
(* startJob calls are made on the job.                                     *)
(***************************************************************************)
C30_CompletedPluginsUnique ==
  /\ [](\A j \in DOMAIN jobs :
          \A i, k \in DOMAIN jobs[j].completedPlugins :
            i # k => jobs[j].completedPlugins[i] # jobs[j].completedPlugins[k])
  /\ [][\A j \in DOMAIN jobs : \A n \in PluginNames :
          emitted'[j][<<"pluginComplete", n>>]
              > emitted[j][<<"pluginComplete", n>>]
            => jobs'[j].completedPlugins
                 = Append(jobs[j].completedPlugins, n)]_vars

(***************************************************************************)
(* C31: getIsProcessing() is true exactly when a job dispatched by the     *)
(* queue is running or the dispatcher holds the slot between two jobs (a   *)
(* setImmediate callback is pending, or a handler that will call           *)
(* processNextJob awaits its webhook): it is never false while a           *)
(* dispatched job is running, and it is false when no job runs, the queue  *)
(* is empty and no dispatch is pending.                                    *)
(***************************************************************************)
C31_ProcessingIffBusy ==
  LET Running == \E j \in DOMAIN q.cjobs : q.cjobs[j].status = "running"
      Holding == \/ q.immediates > 0
                 \/ \E t \in q.tasks : t.next
  IN  q.isProcessing = (Running \/ Holding)

(***************************************************************************)
(* C32: in every reachable state of every job, progress.error is set only  *)
(* if progress.status is failed, and progress.endTime is set only if the   *)
(* status is completed or failed and has been written once: a queued or    *)
(* running job has neither.                                                *)
(***************************************************************************)
C32_ErrorAndEndTimeOnlyTerminal ==
  \A j \in DOMAIN jobs :
    /\ jobs[j].error # NoVal => jobs[j].status = "failed"
    /\ jobs[j].endTime # 0 => jobs[j].status \in Terminal
    /\ jobs[j].endTime <= 1

(***************************************************************************)
(* C33: updatedAt >= createdAt always, and every mutation of a job bumps   *)
(* updatedAt: a step that changes a field of a job (status, currentPlugin, *)
(* completedPlugins, result.metrics, result.error, result.summary, ...)    *)
(* leaves its updatedAt at an instant later than the one it had.           *)
(***************************************************************************)
C33_MutationBumpsUpdatedAt ==
  /\ [](\A j \in DOMAIN jobs : jobs[j].updatedAt >= jobs[j].createdAt)
  /\ [][\A j \in DOMAIN jobs :
          jobs'[j] # jobs[j] => jobs'[j].updatedAt > jobs[j].updatedAt]_vars

(***************************************************************************)
(* C34: in every reachable state of a job, result.metrics has at most one  *)
(* entry per plugin executed for the job, so that its length is at most    *)
(* the number of plugins executed for it (those for which pluginStart was  *)
(* emitted); also when startJob is called again on the job while an        *)
(* earlier run of it awaits a hook.                                        *)
(***************************************************************************)
C34_OneMetricsEntryPerExecutedPlugin ==
  \A j \in DOMAIN jobs :
    LET m        == jobs[j].metrics
        Executed == { n \in PluginNames : emitted[j][<<"pluginStart", n>>] > 0 }
    IN  /\ \A n \in PluginNames :
             Cardinality({ i \in DOMAIN m : m[i][1] = n }) <= 1
        /\ \A i \in DOMAIN m : m[i][1] \in Executed
        /\ Len(m) <= Cardinality(Executed)

(***************************************************************************)
(* C35: jobs of one service do not interfere: every step (a block of a     *)
(* run that catches a plugin error or fails on an error thrown in it, a    *)
(* failJob call, a createJob call) is the step of one job and leaves the   *)
(* status, progress, result, emitted events and runs of every other job    *)
(* as they were, for every interleaving of the jobs' runs.                 *)
(***************************************************************************)
C35_SiblingJobsUntouched ==
  [][\E a \in DOMAIN jobs' :
       /\ \A r \in DOMAIN runs : runs'[r] # runs[r] => runs[r].job = a
       /\ \A b \in DOMAIN jobs \ {a} :
            /\ jobs'[b] = jobs[b]
            /\ emitted'[b] = emitted[b]]_vars

\* job 1 was failed by the error of a throwing listener after a plugin error,
\* and job 2, whose run interleaved with it, completed both plugins clean
C35_Witness ==
  /\ Len(jobs) = 2
  /\ listener = "pluginError"
  /\ jobs[1].status = "failed"
  /\ jobs[1].error = ListenerError
  /\ jobs[1].completedPlugins = <<"a">>
  /\ jobs[2].status = "completed"
  /\ jobs[2].completedPlugins = <<"a", "b">>
  /\ jobs[2].rerror = NoError
  /\ JobErrors(2) = 0

(***************************************************************************)
(* C36: each plugin's initialize() is called once, at construction, and    *)
(* has completed before any of the plugin's before, execute, after or      *)
(* summarize hooks is invoked for a job; a plugin whose initialize throws  *)
(* does not keep the plugins after it from being initialized.              *)
(***************************************************************************)
C36_InitializedBeforeHooks ==
  LET Completed(n) == inits[n] \in {"done", "threw", "none"}
  IN  /\ \A r \in DOMAIN runs :
           /\ runs[r].pc = "hook" => Completed(Plugins[runs[r].idx].name)
           /\ runs[r].pc = "summary" => \A n \in Summarizers : Completed(n)
      /\ \A i, k \in DOMAIN Plugins :
           i < k /\ inits[Plugins[i].name] = "threw"
             => inits[Plugins[k].name] # "waiting"

(***************************************************************************)
(* C37: the state of a CircuitBreaker changes only along CLOSED -> OPEN    *)
(* (a recordFailure bringing failureCount to failureThreshold or more),    *)
(* OPEN -> HALF_OPEN (the reset timer), HALF_OPEN -> CLOSED (recordSuccess,*)
(* which resets failureCount to 0) and HALF_OPEN -> OPEN (recordFailure):  *)
(* HALF_OPEN is entered from OPEN only, never from CLOSED, and             *)
(* recordSuccess in CLOSED or OPEN changes neither state nor failureCount, *)
(* for every interleaving of recordFailure, recordSuccess and timers.      *)
(***************************************************************************)
C37_BreakerTransitions ==
  [][LET from == breaker.state
         to   == breaker'.state
     IN  /\ from # to
              => <<from, to>> \in { <<"CLOSED", "OPEN">>,
                                    <<"OPEN", "HALF_OPEN">>,
                                    <<"HALF_OPEN", "CLOSED">>,
                                    <<"HALF_OPEN", "OPEN">> }
         /\ (from # "OPEN" /\ to = "OPEN")
              => /\ breaker'.failureCount >= breaker.failureThreshold
                 /\ breaker'.failureCount > breaker.failureCount
                      \/ breaker'.failureCount = 1
         /\ (from = "HALF_OPEN" /\ to = "CLOSED")
              => breaker'.failureCount = 0
         /\ from \in {"CLOSED", "OPEN"}
              => RecordSuccessOn(breaker) = breaker]_vars

(***************************************************************************)
(* C38: the handler built by createMiddlewareChain runs the middlewares in *)
(* the given order, each starting only after the one before it called its  *)
(* next without error, and calls the outer next exactly once per request:  *)
(* with no argument after the last middleware succeeded, or with the first *)
(* error (passed to next or thrown), after which no later middleware runs. *)
(***************************************************************************)
C38_ChainCallsNextOnce ==
  LET n        == Len(chain.started)
      Acted(i) == i \in 1..n /\ ~ (chain.phase = "awaiting" /\ i = chain.awaiting)
      Errs(i)  == chain.mws[i] # "next"
      Failed   == { i \in 1..n : Acted(i) /\ Errs(i) }
  IN  /\ \A i \in 1..n : chain.started[i] = i
      /\ \A i \in 1..n : \A k \in 1..(i - 1) : Acted(k) /\ ~ Errs(k)
      /\ Len(chain.nexts) <= 1
      /\ chain.phase = "awaiting" => chain.nexts = <<>>
      /\ chain.phase \in {"returned", "pending forever"}
           => chain.nexts = IF Failed = {}
                            THEN <<0>>
                            ELSE << CHOOSE i \in Failed :
                                      \A k \in Failed : i <= k >>
      /\ (chain.phase = "returned" /\ chain.nexts = <<0>>)
           => n = Len(chain.mws)

(***************************************************************************)
(* C39: MemoryStorage behaves as a map: get(k) returns the value of the    *)
(* last set(k, v), for every value v (0, false and the empty string        *)
(* included), until k is set again, deleted or the store is cleared; get   *)
(* of a key never set, deleted or cleared returns null; set and delete on  *)
(* one key leave the value of every other key unchanged.                   *)
(***************************************************************************)
C39_StorageIsAMap ==
  /\ [][\A k \in Keys :
          (mem'.reply.at # mem.reply.at /\ mem'.reply.key = k)
            => mem'.reply.value = IF mem.map[k] = NoVal THEN Null
                                  ELSE mem.map[k]]_vars
  /\ [][\/ \A k \in Keys : mem'.map[k] = NoVal
        \/ \E k \in Keys : \A o \in Keys \ {k} : mem'.map[o] = mem.map[o]]_vars

====
